---- MODULE Spec2Model ----
(***************************************************************************)
(* Model of app.py, the Streamlit obesity-level predictor.                 *)
(*                                                                         *)
(* One Streamlit script run is one action: the script is executed top to   *)
(* bottom for every page load (OpenPage) and every form submission         *)
(* (Submit).  What survives a run is the st.cache_resource entry of        *)
(* load_artifacts and the elements the run left on the page.               *)
(*                                                                         *)
(* Units.  Numbers are fixed point integers:                               *)
(*   height  in centimetres       (1.70 m   -> 170),                       *)
(*   weight  in tenths of a kg    (70.0 kg  -> 700),                       *)
(*   sliders in tenths            (2.0      -> 20),                        *)
(*   bmi     in thousandths       (24.221   -> 24221): the quotient cut    *)
(*           to thousandths, and one thousandth less where the IEEE double *)
(*           the code computes falls just below a threshold of             *)
(*           classify_bmi that the decimal quotient reaches.  Every        *)
(*           threshold is a whole number of thousandths, so bmi < t holds  *)
(*           of the model's value exactly when it holds of the double.     *)
(***************************************************************************)
EXTENDS Integers, Sequences, FiniteSets, TLC

VARIABLES
    disk,         \* the four .pkl files: file name -> content
    cache,        \* the st.cache_resource entry of load_artifacts
    pc,           \* "boot" | "form" | "stopped" | "crashed": how the last run ended
    form,         \* the widget values of the last form submission
    submitted,    \* st.form_submit_button's value in the last run
    screen,       \* the elements the last run put on the page, in order
    model_input,  \* the DataFrame the last run passed to model.predict, or NoData
    memo,         \* history: one earlier submission and what it showed
    diskChanges,  \* history: how often the files on disk were replaced
    call          \* the last direct call of a helper function (SpecFn only)

vars == <<disk, cache, pc, form, submitted, screen, model_input, memo,
          diskChanges, call>>

Range(s) == {s[i] : i \in DOMAIN s}

(***************************************************************************)
(* Python values.  A scalar carries its type, so that float(age) is a      *)
(* conversion and not the identity.                                        *)
(***************************************************************************)
PyInt(n)   == [type |-> "int",   num |-> n, str |-> ""]
PyFloat(n) == [type |-> "float", num |-> n, str |-> ""]
PyStr(s)   == [type |-> "str",   num |-> 0, str |-> s]

\* float(x) of an int or a float: the same number, of type float
float(x) == [type |-> "float", num |-> x.num, str |-> x.str]

\* Python's ==: an int and a float of the same number are equal
PyEq(a, b) ==
    IF a.type = "str" \/ b.type = "str"
    THEN a.type = b.type /\ a.str = b.str
    ELSE a.num = b.num

None == [none |-> TRUE]

(***************************************************************************)
(* calculate_bmi and classify_bmi (lines 56-73)                            *)
(***************************************************************************)
ZeroDivisionError == -1

\* The inputs of the sampled form grid (Heights, Weights, BodyCases) whose
\* decimal quotient is a threshold of classify_bmi and whose double quotient
\* weight / (height ** 2) is below it: 64.0 / 1.6 ** 2 is
\* 24.999999999999996, while 100.0 / 2.0 ** 2 is 25.0.  <<height, weight>>.
RoundsBelow ==
    { <<110, 363>>, <<110, 484>>, <<160, 640>>, <<160, 768>>, <<160, 896>>,
      <<160, 1024>>, <<180, 1296>>, <<220, 1210>>, <<220, 1452>>,
      <<220, 1936>> }

\* weight / height, the square forgotten
calculate_bmi_nosquare(weight, height) ==
    IF height = 0 THEN ZeroDivisionError
    ELSE (weight * 10000) \div height

calculate_bmi(weight, height) ==
    IF height = 0 THEN ZeroDivisionError
    ELSE LET h2 == height * height
             n  == weight * 1000            \* bmi = n / h2
             q  == (n \div h2) * 1000 + ((n % h2) * 1000) \div h2
         IN  IF <<height, weight>> \in RoundsBelow THEN q - 1 ELSE q

classify_bmi_le(bmi) ==
    IF bmi <= 18500 THEN "Baixo peso"
    ELSE IF bmi <= 25000 THEN "Peso normal"
    ELSE IF bmi <= 30000 THEN "Sobrepeso Nível I"
    ELSE IF bmi <= 35000 THEN "Obesidade Tipo I"
    ELSE IF bmi <= 40000 THEN "Obesidade Tipo II"
    ELSE "Obesidade Tipo III"

classify_bmi(bmi) ==
    IF bmi < 18500 THEN "Baixo peso"
    ELSE IF bmi < 25000 THEN "Peso normal"
    ELSE IF bmi < 30000 THEN "Sobrepeso Nível I"
    ELSE IF bmi < 35000 THEN "Obesidade Tipo I"
    ELSE IF bmi < 40000 THEN "Obesidade Tipo II"
    ELSE "Obesidade Tipo III"

(***************************************************************************)
(* label_translation and recommendations (lines 146-155, 190-229)          *)
(***************************************************************************)
KnownLabels ==
    { "Insufficient_Weight", "Normal_Weight", "Overweight_Level_I",
      "Obesity_Type_I", "Obesity_Type_II", "Obesity_Type_III" }

label_translation ==
    [ l \in KnownLabels |->
        CASE l = "Insufficient_Weight" -> "Baixo Peso"
          [] l = "Normal_Weight"       -> "Peso Normal"
          [] l = "Overweight_Level_I"  -> "Sobrepeso Nível I"
          [] l = "Obesity_Type_I"      -> "Obesidade Tipo I"
          [] l = "Obesity_Type_II"     -> "Obesidade Tipo II"
          [] l = "Obesity_Type_III"    -> "Obesidade Tipo III" ]

\* label_translation.get(prediction_label) without the default: None for an
\* unknown label, shown as the empty string
translate_nodefault(label) ==
    IF label \in DOMAIN label_translation THEN label_translation[label] ELSE ""

\* label_translation.get(prediction_label, prediction_label)
translate(label) ==
    IF label \in DOMAIN label_translation THEN label_translation[label] ELSE label

LocalizedLabels ==
    { "Baixo Peso", "Peso Normal", "Sobrepeso Nível I", "Obesidade Tipo I",
      "Obesidade Tipo II", "Obesidade Tipo III" }

\* Each text is named by its first line.
recommendations ==
    [ l \in LocalizedLabels |->
        CASE l = "Baixo Peso"         -> "- Aumentar consumo calórico de forma saudável"
          [] l = "Peso Normal"        -> "- Manter hábitos alimentares saudáveis"
          [] l = "Sobrepeso Nível I"  -> "- Reduzir calorias em 200-300 por dia"
          [] l = "Obesidade Tipo I"   -> "- Consultar médico e nutricionista"
          [] l = "Obesidade Tipo II"  -> "- Acompanhamento médico obrigatório"
          [] l = "Obesidade Tipo III" -> "- Intervenção médica imediata" ]

GenericRecommendation == "Consulte um profissional de saúde."

\* the table keyed by the names classify_bmi uses ("Peso normal", "Baixo peso")
recommend_bmi_names(localized) ==
    LET key == IF localized = "Peso Normal" THEN "Peso normal"
               ELSE IF localized = "Baixo Peso" THEN "Baixo peso"
               ELSE localized
    IN  IF key \in DOMAIN recommendations THEN recommendations[key]
        ELSE GenericRecommendation

\* recommendations.get(translated_label, "Consulte um profissional de saúde.")
recommend(localized) ==
    IF localized \in DOMAIN recommendations THEN recommendations[localized]
    ELSE GenericRecommendation

(***************************************************************************)
(* The artifact store: four joblib files (lines 27-30).  Their contents    *)
(* are opaque to app.py; the variants below are the contents the model     *)
(* lets the files have.                                                    *)
(***************************************************************************)
Corrupt == [corrupt |-> TRUE]     \* joblib.load raises on this file

\* the keys of the record built at lines 116-133, in that order
FieldNames ==
    << "Gender", "Age", "Height", "Weight", "family_history", "FAVC", "FCVC",
       "NCP", "CAEC", "SMOKE", "CH2O", "SCC", "FAF", "TUE", "CALC", "MTRANS" >>

\* the options of the mtrans selectbox (lines 103-104)
MtransOptions ==
    << "Automobile", "Bike", "Motorbike", "Public_Transportation", "Walking" >>

YesNo == << "yes", "no" >>              \* lines 84, 85, 91, 93
GenderOptions == << "Male", "Female" >> \* line 83

\* expected_columns.pkl
ColsDataset   == [columns |-> FieldNames]
ColsNumericFirst ==
    [columns |-> << "Age", "Height", "Weight", "FCVC", "NCP", "CH2O", "FAF",
                    "TUE", "Gender", "family_history", "FAVC", "CAEC", "SMOKE",
                    "SCC", "CALC", "MTRANS" >>]
ColsWithBMI   == [columns |-> FieldNames \o << "BMI" >>]
ColumnVariants == {ColsDataset, ColsNumericFirst, ColsWithBMI}

\* label_encoder.pkl: a LabelEncoder keeps classes_ sorted
Encoder6 ==
    [classes_ |-> << "Insufficient_Weight", "Normal_Weight", "Obesity_Type_I",
                     "Obesity_Type_II", "Obesity_Type_III",
                     "Overweight_Level_I" >>]
Encoder7 ==
    [classes_ |-> << "Insufficient_Weight", "Normal_Weight", "Obesity_Type_I",
                     "Obesity_Type_II", "Obesity_Type_III",
                     "Overweight_Level_I", "Overweight_Level_II" >>]
EncoderVariants == {Encoder6, Encoder7}

\* categories.pkl: field name -> the legal values of that field
CatsTwo ==
    [vocab |-> [CAEC |-> << "Sometimes", "Frequently", "no" >>,
                CALC |-> << "no", "Sometimes", "Frequently" >>]]
CatsThree ==
    [vocab |-> [CAEC   |-> << "Sometimes", "Frequently", "no" >>,
                CALC   |-> << "no", "Sometimes", "Frequently" >>,
                MTRANS |-> << "Automobile", "Public_Transportation",
                              "Walking" >>]]
CategoryVariants == {CatsTwo, CatsThree}

\* modelo_obesidade.pkl: a fitted classifier.  n_classes is the length of
\* its predict_proba rows, feature_names the columns it reads, mtrans_seen
\* the MTRANS categories of its training data (an unseen one makes its
\* encoder raise), shift and rest fix which class it predicts and how sure.
ModelA ==
    [n_classes |-> 6, feature_names |-> Range(FieldNames),
     mtrans_seen |-> Range(MtransOptions), shift |-> 0, rest |-> 20]
ModelB ==
    [n_classes |-> 7, feature_names |-> Range(FieldNames),
     mtrans_seen |-> Range(MtransOptions) \ {"Bike"}, shift |-> 1, rest |-> 50]
ModelVariants == {ModelA, ModelB}

DiskStates ==
    [model            : ModelVariants    \cup {Corrupt},
     label_encoder    : EncoderVariants  \cup {Corrupt},
     expected_columns : ColumnVariants   \cup {Corrupt},
     categories       : CategoryVariants \cup {Corrupt}]

(***************************************************************************)
(* load_artifacts under st.cache_resource (lines 23-37)                    *)
(***************************************************************************)
\* What one call returns: the four values and whether st.error was called.
Loaded(m, l, e, c, err) ==
    [model |-> m, label_encoder |-> l, expected_columns |-> e,
     categories |-> c, error |-> err]

\* a try/except around each file instead of one around all four
load_artifacts_each(d) ==
    Loaded(IF d.model = Corrupt THEN None ELSE d.model,
           IF d.label_encoder = Corrupt THEN None ELSE d.label_encoder,
           IF d.expected_columns = Corrupt THEN None ELSE d.expected_columns,
           IF d.categories = Corrupt THEN None ELSE d.categories,
           \E f \in DOMAIN d : d[f] = Corrupt)

load_artifacts(d) ==
    IF \E f \in DOMAIN d : d[f] = Corrupt
    THEN Loaded(None, None, None, None, TRUE)
    ELSE Loaded(d.model, d.label_encoder, d.expected_columns, d.categories,
                FALSE)

EmptyCache == [filled |-> FALSE, value |-> Loaded(None, None, None, None, FALSE)]

\* load_artifacts without the decorator: every run reads the files again
cache_resource_off(c, d) == load_artifacts(d)

\* @st.cache_resource: the first call's return value, st.error included, is
\* kept for the life of the process and replayed on every later call
cache_resource(c, d) == IF c.filled THEN c.value ELSE load_artifacts(d)

(***************************************************************************)
(* The form (lines 76-106)                                                 *)
(***************************************************************************)
AgeMin    == 14
AgeMax    == 100
HeightMin == 100
HeightMax == 250
WeightMin == 300
WeightMax == 3000

\* what a widget returns before the user touches it: number_input and
\* slider their value argument, selectbox its first option
Defaults(cats) ==
    [age            |-> PyInt(30),
     height         |-> PyFloat(170),
     weight         |-> PyFloat(700),
     gender         |-> PyStr(GenderOptions[1]),
     family_history |-> PyStr(YesNo[1]),
     favc           |-> PyStr(YesNo[1]),
     fvc            |-> PyFloat(20),
     ncp            |-> PyFloat(30),
     caec           |-> PyStr(cats.vocab.CAEC[1]),
     smoke          |-> PyStr(YesNo[1]),
     ch2o           |-> PyFloat(15),
     scc            |-> PyStr(YesNo[1]),
     faf            |-> PyFloat(10),
     tue            |-> PyFloat(10),
     calc           |-> PyStr(cats.vocab.CALC[1]),
     mtrans         |-> PyStr(MtransOptions[1])]

InRange(x, type, lo, hi) == x.type = type /\ x.num >= lo /\ x.num <= hi
OneOf(x, options) == x.type = "str" /\ x.str \in Range(options)

\* the values the widgets can hand to the script
FormAllows(f, cats) ==
    /\ InRange(f.age, "int", AgeMin, AgeMax)
    /\ InRange(f.height, "float", HeightMin, HeightMax)
    /\ InRange(f.weight, "float", WeightMin, WeightMax)
    /\ OneOf(f.gender, GenderOptions)
    /\ OneOf(f.family_history, YesNo)
    /\ OneOf(f.favc, YesNo)
    /\ InRange(f.fvc, "float", 10, 30)
    /\ InRange(f.ncp, "float", 10, 40)
    /\ OneOf(f.caec, cats.vocab.CAEC)
    /\ OneOf(f.smoke, YesNo)
    /\ InRange(f.ch2o, "float", 5, 30)
    /\ OneOf(f.scc, YesNo)
    /\ InRange(f.faf, "float", 0, 30)
    /\ InRange(f.tue, "float", 0, 20)
    /\ OneOf(f.calc, cats.vocab.CALC)
    /\ OneOf(f.mtrans, MtransOptions)

(***************************************************************************)
(* The record and its columns (lines 116-136)                              *)
(***************************************************************************)
Col(n, v) == [name |-> n, value |-> v]

\* pd.DataFrame([{...}]): one row, the columns in the order of the dict
DataFrame(f) ==
    << Col("Gender", f.gender), Col("Age", float(f.age)),
       Col("Height", f.height), Col("Weight", f.weight),
       Col("family_history", f.family_history), Col("FAVC", f.favc),
       Col("FCVC", float(f.fvc)), Col("NCP", float(f.ncp)),
       Col("CAEC", f.caec), Col("SMOKE", f.smoke),
       Col("CH2O", float(f.ch2o)), Col("SCC", f.scc),
       Col("FAF", float(f.faf)), Col("TUE", float(f.tue)),
       Col("CALC", f.calc), Col("MTRANS", f.mtrans) >>

NoData == << >>

Columns(df) == [i \in DOMAIN df |-> df[i].name]
HasColumn(df, n) == \E i \in DOMAIN df : df[i].name = n
Value(df, n) == df[CHOOSE i \in DOMAIN df : df[i].name = n].value

\* input_data.columns = expected_columns: the names are replaced in place
\* and the values stay where they were
SelectColumns_rename(df, cols) ==
    IF cols = None \/ Len(cols.columns) # Len(df)
    THEN [raised |-> TRUE, df |-> NoData]
    ELSE [raised |-> FALSE,
          df |-> [i \in DOMAIN df |-> Col(cols.columns[i], df[i].value)]]

\* input_data[expected_columns]: KeyError when a name is no column
SelectColumns(df, cols) ==
    IF cols = None \/ \E n \in Range(cols.columns) : ~HasColumn(df, n)
    THEN [raised |-> TRUE, df |-> NoData]
    ELSE [raised |-> FALSE,
          df |-> [i \in DOMAIN cols.columns |->
                    Col(cols.columns[i], Value(df, cols.columns[i]))]]

(***************************************************************************)
(* The classifier and the label encoder (lines 139-143)                    *)
(***************************************************************************)
\* model.predict / predict_proba raise on a frame that lacks a feature or
\* holds a category the fitted encoder never saw
ModelRaises(m, df) ==
    \/ \E n \in m.feature_names : ~HasColumn(df, n)
    \/ Value(df, "MTRANS").str \notin m.mtrans_seen

ModelScore(df) ==
    LET b == calculate_bmi(Value(df, "Weight").num, Value(df, "Height").num)
    IN  Cardinality({t \in {18500, 25000, 30000, 35000, 40000} : b >= t})

\* model.predict(input_data)[0]: a class index
predict(m, df) == (ModelScore(df) + m.shift) % m.n_classes

\* model.predict_proba(input_data)[0], in thousandths
predict_proba(m, df) ==
    [i \in 1..m.n_classes |->
        IF i = predict(m, df) + 1 THEN 1000 - (m.n_classes - 1) * m.rest
        ELSE m.rest]

\* label_encoder.inverse_transform([prediction])[0]: ValueError on an
\* index that is no class of the encoder
inverse_transform(le, p) ==
    IF p + 1 \in DOMAIN le.classes_
    THEN [raised |-> FALSE, label |-> le.classes_[p + 1]]
    ELSE [raised |-> TRUE, label |-> ""]

Max(seq) == CHOOSE x \in Range(seq) : \A y \in Range(seq) : y <= x

(***************************************************************************)
(* One script run (lines 17-262)                                           *)
(***************************************************************************)
\* an element on the page (the texts without their emoji)
El(kind, text, num) == [kind |-> kind, text |-> text, num |-> num]

Kinds(shown) == {shown[i].kind : i \in DOMAIN shown}

\* How the try block (lines 110-237) ends: exc is the exception it raised,
\* "" for none; shown the elements it had put on the page by then;
\* model_input the frame it had passed to the model by then.
Ends(exc, shown, mi) == [exc |-> exc, shown |-> shown, model_input |-> mi]

\* lines 158-175, in thousandths
ResultHead(bmi, bmi_category, proba, translated_label) ==
    << El("success", "Predição concluída!", 0),
       El("metric", "BMI Calculado", bmi),
       El("metric_category", bmi_category, 0),
       El("metric", "Confiança da Predição", Max(proba)),
       El("result", translated_label, 0),
       El("subheader", "Probabilidades por Categoria", 0) >>

\* lines 185-237
ResultTail(proba, translated_label) ==
    << El("bar_chart", "Categoria", Len(proba)),
       El("subheader", "Recomendações", 0),
       El("recommendation", recommend(translated_label), 0),
       El("download_button", "dados_paciente.csv", 0) >>

TryBlock(a, f) ==
    LET bmi == calculate_bmi(f.weight.num, f.height.num)
    IN
    IF bmi = ZeroDivisionError THEN Ends("ZeroDivisionError", << >>, NoData)
    ELSE
    LET bmi_category == classify_bmi(bmi)
        sel == SelectColumns(DataFrame(f), a.expected_columns)
        input_data == sel.df
    IN
    IF sel.raised THEN Ends("KeyError", << >>, NoData)
    ELSE IF ModelRaises(a.model, input_data)
    THEN Ends("ValueError", << >>, input_data)
    ELSE
    LET prediction == predict(a.model, input_data)
        prediction_proba == predict_proba(a.model, input_data)
    IN
    IF a.label_encoder = None THEN Ends("AttributeError", << >>, input_data)
    ELSE
    LET inv == inverse_transform(a.label_encoder, prediction)
        translated_label == translate(inv.label)
        head == ResultHead(bmi, bmi_category, prediction_proba,
                           translated_label)
    IN
    IF inv.raised THEN Ends("ValueError", << >>, input_data)
    \* line 180: the two columns of prob_df must have one length
    ELSE IF Len(a.label_encoder.classes_) # Len(prediction_proba)
    THEN Ends("ValueError", head, input_data)
    ELSE Ends("", head \o ResultTail(prediction_proba, translated_label),
              input_data)

\* an except clause for ValueError only
except_ValueError(exc) == exc = "ValueError"

\* line 239, except Exception: every exception of the try block is caught
except_Exception(exc) == TRUE

\* lines 240-241
ExceptBranch ==
    << El("error", "Erro ao processar predição", 0),
       El("info",
          "Verifique se todos os campos foram preenchidos corretamente.", 0) >>

Traceback(exc) == << El("exception", exc, 0) >>

PageTop    == << El("title", "Preditor de Nível de Obesidade", 0) >>
LoadError  == << El("error", "Erro ao carregar arquivos", 0) >>
Form       == << El("form", "patient_form", 0) >>
PageBottom == << El("sidebar", "Sobre o Modelo", 0),
                 El("caption", "Esta ferramenta é para fins educacionais.", 0) >>

Ran(c, p, s, mi) == [cache |-> c, pc |-> p, screen |-> s, model_input |-> mi]

\* a script that goes on after a failed load
StopIf_never(a) == FALSE

\* lines 39-40: if model is None: st.stop()
StopIf(a) == a.model = None

\* The whole script, run with the form's submit flag sub and widget values f.
RunScript(c, d, sub, f) ==
    LET a     == cache_resource(c, d)
        kept  == [filled |-> TRUE, value |-> a]
        top   == PageTop \o (IF a.error THEN LoadError ELSE << >>)
    IN
    IF StopIf(a) THEN Ran(kept, "stopped", top, NoData)
    \* lines 90, 102: categories["CAEC"], categories["CALC"]
    ELSE IF a.categories = None
    THEN Ran(kept, "crashed", top \o Traceback("TypeError"), NoData)
    ELSE IF ~({"CAEC", "CALC"} \subseteq DOMAIN a.categories.vocab)
    THEN Ran(kept, "crashed", top \o Traceback("KeyError"), NoData)
    ELSE
    LET t == IF sub THEN TryBlock(a, f) ELSE Ends("", << >>, NoData)
    IN
    IF t.exc = ""
    THEN Ran(kept, "done", top \o Form \o t.shown \o PageBottom,
             t.model_input)
    ELSE IF except_Exception(t.exc)
    THEN Ran(kept, "done",
             top \o Form \o t.shown \o ExceptBranch \o PageBottom,
             t.model_input)
    ELSE Ran(kept, "crashed", top \o Form \o t.shown \o Traceback(t.exc),
             t.model_input)

(***************************************************************************)
(* Actions                                                                 *)
(***************************************************************************)
MaxDiskChanges == 1

\* memo.old: a later run has happened since the submission was remembered
NoMemo == [set |-> FALSE, old |-> FALSE, form |-> None, screen |-> << >>,
           model_input |-> NoData]
Older(m) == IF m.set THEN [m EXCEPT !.old = TRUE] ELSE m

Called(fn, arg, arg2, num, out, out2) ==
    [fn |-> fn, arg |-> arg, arg2 |-> arg2, num |-> num, out |-> out,
     out2 |-> out2]
NoCall == Called("", "", "", 0, "", "")

\* the body measurements and the single edits the user makes in Spec
BodyCases ==
    { <<170, 700>>, <<160, 1000>>, <<170, 500>>, <<170, 800>>, <<170, 900>>,
      <<160, 1100>> }

Inputs(cats) ==
    LET d == Defaults(cats)
    IN    {[d EXCEPT !.height = PyFloat(b[1]), !.weight = PyFloat(b[2])] :
              b \in BodyCases}
     \cup {[d EXCEPT !.mtrans = PyStr("Bike")]}
     \cup {[d EXCEPT !.age = PyInt(AgeMin), !.gender = PyStr("Female"),
                     !.smoke = PyStr("no"), !.faf = PyFloat(0),
                     !.caec = PyStr(cats.vocab.CAEC[Len(cats.vocab.CAEC)]),
                     !.calc = PyStr(cats.vocab.CALC[Len(cats.vocab.CALC)]),
                     !.mtrans = PyStr("Walking")]}

\* the sampled grid of SpecBody
Heights == {100, 110, 125, 150, 160, 170, 180, 200, 220, 250}
Weights ==
    {300, 363, 400, 484, 500, 640, 700, 740, 768, 896, 1000, 1024, 1210,
     1296, 1452, 1600, 1936, 2000, 2500, 3000}

BodyInputs(cats) ==
    {[Defaults(cats) EXCEPT !.height = PyFloat(h), !.weight = PyFloat(w)] :
        h \in Heights, w \in Weights}

HasForm(shown) == "form" \in Kinds(shown)

Apply(r) ==
    /\ cache' = r.cache
    /\ pc' = r.pc
    /\ screen' = r.screen
    /\ model_input' = r.model_input

\* the browser loads the page: a run with a fresh, unsubmitted form
OpenPage ==
    /\ \E r \in {RunScript(cache, disk, FALSE, None)} : Apply(r)
    /\ form' = None
    /\ submitted' = FALSE
    /\ memo' = Older(memo)
    /\ UNCHANGED <<disk, diskChanges, call>>

\* the user sets the widgets to f and presses the submit button
Submit(f, remember) ==
    /\ HasForm(screen)
    /\ cache.filled
    /\ cache.value.categories # None
    /\ FormAllows(f, cache.value.categories)
    /\ \E r \in {RunScript(cache, disk, TRUE, f)} :
           /\ Apply(r)
           /\ memo' = IF remember
                      THEN [set |-> TRUE, old |-> FALSE, form |-> f,
                            screen |-> r.screen,
                            model_input |-> r.model_input]
                      ELSE Older(memo)
    /\ form' = f
    /\ submitted' = TRUE
    /\ UNCHANGED <<disk, diskChanges, call>>

SubmitAny ==
    /\ cache.filled
    /\ cache.value.categories # None
    /\ \E f \in Inputs(cache.value.categories), remember \in BOOLEAN :
          Submit(f, remember)

SubmitBody ==
    /\ cache.filled
    /\ cache.value.categories # None
    /\ \E f \in BodyInputs(cache.value.categories) : Submit(f, FALSE)

\* somebody replaces or damages an artifact file while the app runs
DiskChange ==
    /\ diskChanges < MaxDiskChanges
    /\ \E d \in DiskStates :
          /\ Cardinality({k \in DOMAIN disk : d[k] # disk[k]}) = 1
          /\ disk' = d
    /\ diskChanges' = diskChanges + 1
    /\ UNCHANGED <<cache, pc, form, submitted, screen, model_input, memo, call>>

Init ==
    /\ disk \in DiskStates
    /\ cache = EmptyCache
    /\ pc = "boot"
    /\ form = None
    /\ submitted = FALSE
    /\ screen = << >>
    /\ model_input = NoData
    /\ memo = NoMemo
    /\ diskChanges = 0
    /\ call = NoCall

Next == OpenPage \/ SubmitAny \/ DiskChange

Spec == Init /\ [][Next]_vars

(***************************************************************************)
(* SpecBody: one healthy artifact store, submissions over the sampled      *)
(* grid of heights and weights.                                            *)
(***************************************************************************)
HealthyDisk ==
    [model |-> ModelA, label_encoder |-> Encoder6,
     expected_columns |-> ColsDataset, categories |-> CatsTwo]

InitBody ==
    /\ disk = HealthyDisk
    /\ cache = EmptyCache
    /\ pc = "boot"
    /\ form = None
    /\ submitted = FALSE
    /\ screen = << >>
    /\ model_input = NoData
    /\ memo = NoMemo
    /\ diskChanges = 0
    /\ call = NoCall

NextBody == OpenPage \/ SubmitBody

SpecBody == InitBody /\ [][NextBody]_vars

(***************************************************************************)
(* SpecFn: the helper functions called directly on sampled arguments       *)
(***************************************************************************)
MaxBmiStep == 200

BmiBounds == << 18500, 25000, 30000, 35000, 40000 >>

BmiValues ==
         {250 * k : k \in 0..MaxBmiStep}
    \cup {BmiBounds[i] + e : i \in DOMAIN BmiBounds, e \in {-1, 0, 1}}

Labels ==
    KnownLabels \cup LocalizedLabels
    \cup {"Overweight_Level_II", "Peso normal", "normal_weight", ""}

CallClassify ==
    /\ \E b \in BmiValues :
          call' = Called("classify_bmi", "", "", b, classify_bmi(b), "")
    /\ UNCHANGED <<disk, cache, pc, form, submitted, screen, model_input,
                   memo, diskChanges>>

\* two labels translated side by side
CallTranslate ==
    /\ \E l1 \in Labels, l2 \in Labels :
          call' = Called("translate", l1, l2, 0, translate(l1), translate(l2))
    /\ UNCHANGED <<disk, cache, pc, form, submitted, screen, model_input,
                   memo, diskChanges>>

\* lines 155 and 229 on a predicted label: out2 is translated_label, out
\* the text of st.info
CallRecommend ==
    /\ \E l \in Labels :
          call' = Called("recommend", l, "", 0, recommend(translate(l)),
                         translate(l))
    /\ UNCHANGED <<disk, cache, pc, form, submitted, screen, model_input,
                   memo, diskChanges>>

NextFn == CallClassify \/ CallTranslate \/ CallRecommend

SpecFn == InitBody /\ [][NextFn]_vars

(***************************************************************************)
(* Properties                                                              *)
(***************************************************************************)
BmiBuckets ==
    << "Baixo peso", "Peso normal", "Sobrepeso Nível I", "Obesidade Tipo I",
       "Obesidade Tipo II", "Obesidade Tipo III" >>

\* the first bucket whose upper bound exceeds bmi, the top one if none does
BucketOf(bmi) ==
    LET above == {i \in DOMAIN BmiBounds : BmiBounds[i] > bmi}
    IN  IF above = {} THEN BmiBuckets[Len(BmiBuckets)]
        ELSE BmiBuckets[CHOOSE i \in above : \A j \in above : i <= j]

ShownText(shown, kind) ==
    shown[CHOOSE i \in DOMAIN shown : shown[i].kind = kind].text
ShownBmi(shown) ==
    shown[CHOOSE i \in DOMAIN shown :
            shown[i].kind = "metric" /\ shown[i].text = "BMI Calculado"].num

\* C2: for every weight and height the form allows, a submission computes
\* bmi = weight / height^2 (here: to the hundredth), raises no division by
\* zero, and shows the category of that bmi; 1.70 m and 70.0 kg give "Peso
\* normal", 1.60 m and 100.0 kg give "Obesidade Tipo II".
C2_BmiOfSubmission ==
    submitted =>
        LET h == form.height.num
            w == form.weight.num
            c == ShownBmi(screen) \div 10
        IN  /\ h >= HeightMin /\ h <= HeightMax
            /\ w >= WeightMin /\ w <= WeightMax
            /\ "error" \notin Kinds(screen)
            /\ "metric_category" \in Kinds(screen)
            /\ c * h * h <= w * 100000
            /\ w * 100000 <= (c + 1) * h * h
            /\ ShownText(screen, "metric_category")
                 = BucketOf(ShownBmi(screen))
            /\ (h = 170 /\ w = 700) =>
                 ShownText(screen, "metric_category") = "Peso normal"
            /\ (h = 160 /\ w = 1000) =>
                 ShownText(screen, "metric_category") = "Obesidade Tipo II"

C2_Witness ==
    /\ submitted
    /\ form.height.num = 160
    /\ form.weight.num = 1000
    /\ ShownText(screen, "metric_category") = "Obesidade Tipo II"

\* C3: the translation maps the six known English names to six distinct
\* localized names, and returns every other label unchanged.
C3_TranslateOneToOne ==
    call.fn = "translate" =>
        /\ call.arg \in KnownLabels => call.out \in LocalizedLabels
        /\ (call.arg \in KnownLabels /\ call.arg2 \in KnownLabels
              /\ call.arg # call.arg2) => call.out # call.out2
        /\ call.arg \notin KnownLabels => call.out = call.arg
        /\ call.arg2 \notin KnownLabels => call.out2 = call.arg2

C3_Witness ==
    /\ call.fn = "translate"
    /\ call.arg = "Obesity_Type_I" /\ call.out = "Obesidade Tipo I"
    /\ call.arg2 = "Overweight_Level_II" /\ call.out2 = "Overweight_Level_II"

\* C4 as claimed: a known label is shown its own category's text, never
\* the generic one; any other predicted label is translated to itself and
\* shown the generic message.
C4_AsClaimed ==
    call.fn = "recommend" =>
        /\ call.arg \in KnownLabels =>
              /\ call.out = recommendations[label_translation[call.arg]]
              /\ call.out # GenericRecommendation
        /\ call.arg \notin KnownLabels =>
              /\ call.out2 = call.arg
              /\ call.out = GenericRecommendation

\* C4, amended: a known label is shown its own category's text, never the
\* generic one; a predicted label that is neither one of the six English
\* names nor one of the six localized names is translated to itself and
\* shown the generic message.
C4_RecommendOrFallback ==
    call.fn = "recommend" =>
        /\ call.arg \in KnownLabels =>
              /\ call.out = recommendations[label_translation[call.arg]]
              /\ call.out # GenericRecommendation
        /\ call.arg \notin KnownLabels => call.out2 = call.arg
        /\ call.arg \notin KnownLabels \cup LocalizedLabels =>
              call.out = GenericRecommendation

C4_Witness ==
    /\ call.fn = "recommend"
    /\ call.arg = "Overweight_Level_II"
    /\ call.out2 = "Overweight_Level_II"
    /\ call.out = GenericRecommendation

\* the widget whose value the user entered for a field of the record
Entered(f, n) ==
    CASE n = "Gender"         -> f.gender
      [] n = "Age"            -> f.age
      [] n = "Height"         -> f.height
      [] n = "Weight"         -> f.weight
      [] n = "family_history" -> f.family_history
      [] n = "FAVC"           -> f.favc
      [] n = "FCVC"           -> f.fvc
      [] n = "NCP"            -> f.ncp
      [] n = "CAEC"           -> f.caec
      [] n = "SMOKE"          -> f.smoke
      [] n = "CH2O"           -> f.ch2o
      [] n = "SCC"            -> f.scc
      [] n = "FAF"            -> f.faf
      [] n = "TUE"            -> f.tue
      [] n = "CALC"           -> f.calc
      [] n = "MTRANS"         -> f.mtrans

Invoked == model_input # NoData

\* C5: whenever a record is passed to the model, its field names are
\* exactly the Expected Column Order (the same 16 names in the same order)
\* and every field holds the value the user entered for it.
C5_RecordMatchesColumns ==
    Invoked =>
        /\ Columns(model_input) = cache.value.expected_columns.columns
        /\ Len(model_input) = Len(FieldNames)
        /\ Range(Columns(model_input)) = Range(FieldNames)
        /\ \A i \in DOMAIN model_input :
              /\ model_input[i].name \in Range(FieldNames)
              /\ PyEq(model_input[i].value,
                      Entered(form, model_input[i].name))

C5_Witness ==
    /\ Invoked
    /\ cache.value.expected_columns = ColsNumericFirst
    /\ model_input[1].name = "Age"
    /\ form.mtrans.str = "Walking"

ProcessingError == ExceptBranch[1]
Hint == ExceptBranch[2]

\* C6 as claimed: a submission whose record lacks a field of the Expected
\* Column Order, or holds a categorical value outside the vocabulary
\* declared for its field or outside the one the model was trained on, is
\* reported as an error and never reaches the model.
C6_AsClaimed ==
    LET a == cache.value
    IN  /\ (submitted /\ \E n \in Range(a.expected_columns.columns) :
                            n \notin Range(FieldNames))
              => (~Invoked /\ ProcessingError \in Range(screen))
        /\ Invoked =>
              /\ \A n \in DOMAIN a.categories.vocab :
                    HasColumn(model_input, n) =>
                       Value(model_input, n).str \in Range(a.categories.vocab[n])
              /\ Value(model_input, "MTRANS").str \in a.model.mtrans_seen

LoadFailed == cache.filled /\ cache.value.error

\* C7: if loading any one of the four artifacts fails, the user sees the
\* load error and the run stops before the form: no submission and no model
\* invocation follows, and a prediction is only made with all four loaded.
C7_FailedLoadHalts ==
    /\ (cache.filled /\ diskChanges = 0 /\ \E k \in DOMAIN disk : disk[k] = Corrupt)
          => LoadFailed
    /\ LoadFailed =>
          /\ pc = "stopped"
          /\ LoadError[1] \in Range(screen)
          /\ ~HasForm(screen)
          /\ ~submitted
          /\ ~Invoked
          /\ ~memo.set
    /\ (submitted \/ Invoked) =>
          /\ ~cache.value.error
          /\ cache.value.model # None
          /\ cache.value.label_encoder # None
          /\ cache.value.expected_columns # None
          /\ cache.value.categories # None

C7_Witness ==
    /\ LoadFailed
    /\ pc = "stopped"
    /\ diskChanges = 0
    /\ disk.model # Corrupt
    /\ disk.categories = Corrupt

Completed(shown) == "download_button" \in Kinds(shown)

\* nothing of the try block can raise for these artifacts and this form
CanSucceed(a, f) ==
    /\ Range(a.expected_columns.columns) \subseteq Range(FieldNames)
    /\ f.mtrans.str \in a.model.mtrans_seen
    /\ a.model.n_classes = Len(a.label_encoder.classes_)

\* C8: a failure raised during a submission is caught and shown as the
\* generic processing error with the hint; the script still runs to its end
\* with the form on the page, and a later submission that can succeed does.
C8_FailureIsRecoverable ==
    /\ []((submitted /\ ~Completed(screen)) =>
             /\ ProcessingError \in Range(screen)
             /\ Hint \in Range(screen)
             /\ "exception" \notin Kinds(screen)
             /\ pc = "done"
             /\ HasForm(screen))
    /\ [][(submitted /\ ~Completed(screen) /\ submitted'
             /\ CanSucceed(cache'.value, form'))
              => (Completed(screen') /\ ProcessingError \notin Range(screen'))]_vars

C8_Witness ==
    /\ submitted
    /\ Completed(screen)
    /\ ProcessingError \notin Range(screen)
    /\ memo.set /\ memo.old
    /\ ProcessingError \in Range(memo.screen)

\* C9 as claimed: a submission shows either the success banner with the
\* results and the download, or the processing error, never both; the
\* download is offered only when the whole display completed.
C9_AsClaimed ==
    submitted =>
        LET ok  == "success" \in Kinds(screen)
            err == ProcessingError \in Range(screen)
        IN  /\ ok \/ err
            /\ ~(ok /\ err)
            /\ ok => {"result", "bar_chart", "recommendation",
                      "download_button"} \subseteq Kinds(screen)
            /\ Completed(screen) => (ok /\ ~err)

\* C10: once the artifacts are loaded nothing changes them, and what a
\* submission shows and passes to the model depends only on its inputs and
\* the loaded artifacts: it equals what the same inputs gave in an earlier
\* submission, whatever ran in between.
C10_StatelessSubmissions ==
    /\ [][cache.filled => cache' = cache]_vars
    /\ []((submitted /\ memo.set /\ memo.form = form) =>
             (screen = memo.screen /\ model_input = memo.model_input))

C10_Witness ==
    /\ submitted
    /\ memo.set /\ memo.old
    /\ memo.form = form
    /\ screen = memo.screen
    /\ diskChanges > 0
    /\ disk.model # cache.value.model

====
